---- MODULE Spec2Model ----
(***************************************************************************)
(* Model of the CareGrid listings pipeline                                 *)
(* (src/scripts/python/caregrid_listings_manager.py).                      *)
(*                                                                         *)
(* Python strings are modelled as sequences of one-character strings, so   *)
(* that strip/upper/title/startswith/slicing and SequenceMatcher are       *)
(* computed as the code computes them.  A record is the dict built by      *)
(* clean_record (21 keys).  The notes string is modelled as the sequence   *)
(* of messages appended to it (each message is a non-empty piece of text,  *)
(* so the string is empty iff the sequence is, and string prefix follows   *)
(* from sequence prefix).                                                  *)
(***************************************************************************)
EXTENDS Integers, Sequences, FiniteSets, TLC

VARIABLES
    pc,              \* position in process_records
    file,            \* the rows of the input file (key -> string), or "unreadable"
    raw_records,     \* load_csv's result
    i,               \* loop index of the stage at hand (1-based)
    cleaned,         \* the local `cleaned` between clean_record and check_required_fields
    records,         \* cleaned_records
    merged_indices,  \* deduplicate_records: set of consumed indices
    deduplicated,    \* deduplicate_records' output list; mutated in place by later stages
    origin,          \* origin[k]: input index of deduplicated[k]
    base_of,         \* base_of[j]: the i whose scan added j to merged_indices (0: none)
    google_api_key,  \* whether GOOGLE_MAPS_API_KEY is set
    last,            \* the last step taken and the output position it acted on
    api_base,        \* whether API_BASE is set
    outputs,         \* the artifacts written by write_outputs and the summary it returned
    api_result,      \* publish_to_api's counters, and the dict it returned
    posts            \* posts[k]: the k-th POST: position of the record, payload, answer

\* The state of main outside process_records
mainVars == <<api_base, outputs, api_result, posts>>

vars == <<pc, file, raw_records, i, cleaned, records, merged_indices,
          deduplicated, origin, base_of, google_api_key, last, mainVars>>

----------------------------------------------------------------------------
(* Characters and Python's str methods *)

LowerChars == <<"a","b","c","d","e","f","g","h","i","j","k","l","m",
                "n","o","p","q","r","s","t","u","v","w","x","y","z">>
UpperChars == <<"A","B","C","D","E","F","G","H","I","J","K","L","M",
                "N","O","P","Q","R","S","T","U","V","W","X","Y","Z">>
DigitChars == {"0","1","2","3","4","5","6","7","8","9"}

IsLowerC(c) == \E k \in DOMAIN LowerChars : LowerChars[k] = c
IsUpperC(c) == \E k \in DOMAIN UpperChars : UpperChars[k] = c
IsCasedC(c) == IsLowerC(c) \/ IsUpperC(c)
ToUpperC(c) == IF IsLowerC(c)
               THEN UpperChars[CHOOSE k \in DOMAIN LowerChars : LowerChars[k] = c]
               ELSE c
ToLowerC(c) == IF IsUpperC(c)
               THEN LowerChars[CHOOSE k \in DOMAIN UpperChars : UpperChars[k] = c]
               ELSE c

StrUpper(s) == [k \in 1..Len(s) |-> ToUpperC(s[k])]
StrLower(s) == [k \in 1..Len(s) |-> ToLowerC(s[k])]

\* str.title(): a cased character is upper-cased when the previous character
\* is not cased (or there is none), lower-cased otherwise.
StrTitle(s) == [k \in 1..Len(s) |->
                  IF k = 1 \/ ~IsCasedC(s[k-1]) THEN ToUpperC(s[k]) ELSE ToLowerC(s[k])]

\* str.isupper(): no lower-case character and at least one cased character.
StrIsUpper(s) == /\ \A k \in 1..Len(s) : ~IsLowerC(s[k])
                 /\ \E k \in 1..Len(s) : IsUpperC(s[k])

\* str.strip()
Strip(s) ==
    LET ns == {k \in 1..Len(s) : s[k] # " "}
    IN  IF ns = {} THEN <<>>
        ELSE SubSeq(s, CHOOSE k \in ns : \A m \in ns : k <= m,
                       CHOOSE k \in ns : \A m \in ns : k >= m)

StartsWith(s, p) == Len(s) >= Len(p) /\ SubSeq(s, 1, Len(p)) = p

\* `p in s` for strings
Contains(s, p) == \E k \in 1..(Len(s) - Len(p) + 1) : SubSeq(s, k, k + Len(p) - 1) = p

\* s[:n] for n >= 0
Take(s, n) == SubSeq(s, 1, IF n < Len(s) THEN n ELSE Len(s))

\* s[n:] for n >= 0 (0-based n)
Drop(s, n) == SubSeq(s, n + 1, Len(s))

IsDigitC(c) == c \in DigitChars

\* re.sub(r'\D', '', s)
DigitsOnly(s) == SelectSeq(s, IsDigitC)

\* re.split(r'[;,]', s)
RECURSIVE SplitServices(_)
SplitServices(s) ==
    LET seps == {k \in 1..Len(s) : s[k] \in {";", ","}}
    IN  IF seps = {} THEN <<s>>
        ELSE LET k == CHOOSE x \in seps : \A y \in seps : x <= y
             IN  <<SubSeq(s, 1, k - 1)>> \o SplitServices(Drop(s, k))

IsNonBlank(s) == Strip(s) # <<>>

\* urlparse(url).netloc for a url that starts with http:// or https://:
\* the text after "//" up to the first "/", "?" or "#".
UrlNetloc(url) ==
    LET colon == CHOOSE k \in 1..Len(url) : url[k] = ":" /\ \A m \in 1..(k-1) : url[m] # ":"
        rest  == Drop(url, colon + 2)
        ends  == {k \in 1..Len(rest) : rest[k] \in {"/", "?", "#"}}
    IN  IF ends = {} THEN rest
        ELSE SubSeq(rest, 1, (CHOOSE k \in ends : \A m \in ends : k <= m) - 1)

\* urlparse(url) raises ValueError('Invalid IPv6 URL') when the netloc has
\* one of '[' and ']' without the other.
UrlRaises(url) ==
    Contains(UrlNetloc(url), <<"[">>) # Contains(UrlNetloc(url), <<"]">>)

----------------------------------------------------------------------------
(* String constants of the program *)

HTTP    == <<"h","t","t","p",":","/","/">>
HTTPS   == <<"h","t","t","p","s",":","/","/">>
PLUS44  == <<"+","4","4">>
DEMO    == <<".","e","x","a","m","p","l","e",".","c","o","m">>

S_GP         == <<"G","P">>
S_Dentist    == <<"D","e","n","t","i","s","t">>
S_Physio     == <<"P","h","y","s","i","o">>
S_Aesthetics == <<"A","e","s","t","h","e","t","i","c","s">>
S_Other      == <<"O","t","h","e","r">>

valid_categories == {S_GP, S_Dentist, S_Physio, S_Aesthetics, S_Other}

GPNames == {<<"G","P">>,
            <<"G","E","N","E","R","A","L"," ","P","R","A","C","T","I","C","E">>,
            <<"D","O","C","T","O","R">>}
DentistNames == {<<"D","E","N","T","I","S","T">>, <<"D","E","N","T","A","L">>}
PhysioNames == {<<"P","H","Y","S","I","O">>,
                <<"P","H","Y","S","I","O","T","H","E","R","A","P","Y">>,
                <<"P","H","Y","S","I","O","T","H","E","R","A","P","I","S","T">>}
AestheticsNames == {<<"A","E","S","T","H","E","T","I","C","S">>,
                    <<"A","E","S","T","H","E","T","I","C">>,
                    <<"C","O","S","M","E","T","I","C">>}

Statuses == {"READY", "NEEDS_REVIEW", "BLOCKED_MISSING_DATA", "MERGED_DUPLICATE"}

NoneVal == "None"

\* One message appended to notes: its template, the text interpolated into it
\* (a string, or the list of missing labels) and the number interpolated.
Note(kind, arg, n) == [kind |-> kind, arg |-> arg, n |-> n]

----------------------------------------------------------------------------
(* clean_record *)

\* The name rule without the brand-styling exception: always title-cased
CleanName_title_always(record) ==
    IF record.name # <<>> THEN StrTitle(Strip(record.name)) ELSE <<>>

CleanName(record) ==
    IF record.name # <<>>
    THEN LET name == Strip(record.name)
         IN  IF ~StrIsUpper(name) THEN StrTitle(name) ELSE name
    ELSE <<>>

\* clean_record without the 'Other' fallback: free text is title-cased and kept
CleanCategory_passthrough(record) ==
    IF record.category # <<>>
    THEN LET category == StrUpper(Strip(record.category))
         IN  IF category \in GPNames THEN S_GP
             ELSE IF category \in DentistNames THEN S_Dentist
             ELSE IF category \in PhysioNames THEN S_Physio
             ELSE IF category \in AestheticsNames THEN S_Aesthetics
             ELSE StrTitle(category)
    ELSE <<>>

CleanCategory(record) ==
    IF record.category # <<>>
    THEN LET category == StrUpper(Strip(record.category))
         IN  IF category \in GPNames THEN S_GP
             ELSE IF category \in DentistNames THEN S_Dentist
             ELSE IF category \in PhysioNames THEN S_Physio
             ELSE IF category \in AestheticsNames THEN S_Aesthetics
             ELSE IF StrTitle(category) \in valid_categories THEN StrTitle(category)
             ELSE S_Other
    ELSE <<>>

CategoryNotes(record) ==
    IF record.category # <<>>
    THEN LET category == StrUpper(Strip(record.category))
         IN  IF /\ category \notin GPNames \cup DentistNames \cup PhysioNames \cup AestheticsNames
                /\ StrTitle(category) \notin valid_categories
             THEN <<Note("CategoryMappedToOther", record.category, 0)>>
             ELSE <<>>
    ELSE <<>>

CleanPhone(record) ==
    IF record.phone # <<>>
    THEN LET phone == DigitsOnly(record.phone)
         IN  IF StartsWith(phone, <<"0">>) THEN PLUS44 \o Drop(phone, 1)
             ELSE IF StartsWith(phone, <<"4","4">>) THEN <<"+">> \o phone
             ELSE IF ~StartsWith(phone, PLUS44) THEN record.phone
             ELSE phone
    ELSE <<>>

PhoneNotes(record) ==
    IF record.phone # <<>>
    THEN LET phone == DigitsOnly(record.phone)
         IN  IF /\ ~StartsWith(phone, <<"0">>)
                /\ ~StartsWith(phone, <<"4","4">>)
                /\ ~StartsWith(phone, PLUS44)
             THEN <<Note("PhoneFormatUnclear", <<>>, 0)>>
             ELSE <<>>
    ELSE <<>>

CleanWebsite(record) ==
    IF record.website # <<>>
    THEN LET website == Strip(record.website)
         IN  IF ~(StartsWith(website, HTTP) \/ StartsWith(website, HTTPS))
             THEN HTTPS \o website
             ELSE website
    ELSE <<>>

WebsiteInvalid(record) ==
    /\ record.website # <<>>
    /\ LET netloc == UrlNetloc(CleanWebsite(record))
       IN  netloc = <<>> \/ ~Contains(netloc, <<".">>)

\* Whether clean_record leaves by the ValueError of urlparse(website)
CleanRaises(record) ==
    record.website # <<>> /\ UrlRaises(CleanWebsite(record))

CleanServices(record) ==
    IF record.services # <<>>
    THEN LET parts == SplitServices(record.services)
         IN  [k \in 1..Len(SelectSeq(parts, IsNonBlank)) |->
                 Strip(SelectSeq(parts, IsNonBlank)[k])]
    ELSE <<>>

clean_record(record) ==
    [name           |-> CleanName(record),
     category       |-> CleanCategory(record),
     city           |-> IF record.city # <<>> THEN StrTitle(Strip(record.city)) ELSE <<>>,
     address        |-> Strip(record.address),
     postcode       |-> StrUpper(Strip(record.postcode)),
     phone          |-> CleanPhone(record),
     website        |-> CleanWebsite(record),
     services       |-> CleanServices(record),
     rating         |-> 0,
     reviewsCount   |-> 0,
     bookingLink    |-> IF record.bookinglink # <<>> THEN Strip(record.bookinglink) ELSE <<>>,
     logoUrl        |-> IF record.logourl # <<>> THEN Strip(record.logourl) ELSE <<>>,
     isClaimed      |-> FALSE,
     description    |-> <<>>,
     seoTitle       |-> <<>>,
     seoDescription |-> <<>>,
     tags           |-> <<>>,
     latitude       |-> NoneVal,
     longitude      |-> NoneVal,
     status         |-> IF WebsiteInvalid(record) THEN "NEEDS_REVIEW" ELSE "READY",
     notes          |-> CategoryNotes(record) \o PhoneNotes(record)
                        \o (IF WebsiteInvalid(record)
                            THEN <<Note("WebsiteInvalid", <<>>, 0)>> ELSE <<>>)]

----------------------------------------------------------------------------
(* check_required_fields *)

required_fields == <<"name", "category", "city">>

MissingFields(record) ==
    SelectSeq(required_fields, LAMBDA f : record[f] = <<>>)
    \o (IF record.address = <<>> /\ record.postcode = <<>>
        THEN <<"address or postcode">> ELSE <<>>)
    \o (IF record.website = <<>> /\ record.phone = <<>>
        THEN <<"website or phone">> ELSE <<>>)

\* check_required_fields that blocks only a READY record
check_required_fields_ready_only(record) ==
    IF MissingFields(record) # <<>>
    THEN [record EXCEPT !.status = IF @ = "READY" THEN "BLOCKED_MISSING_DATA" ELSE @,
                        !.notes  = @ \o <<Note("MissingRequired", MissingFields(record), 0)>>]
    ELSE record

\* check_required_fields that writes its message and leaves status alone
check_required_fields_note_only(record) ==
    IF MissingFields(record) # <<>>
    THEN [record EXCEPT !.notes  = @ \o <<Note("MissingRequired", MissingFields(record), 0)>>]
    ELSE record

check_required_fields(record) ==
    IF MissingFields(record) # <<>>
    THEN [record EXCEPT !.status = "BLOCKED_MISSING_DATA",
                        !.notes  = @ \o <<Note("MissingRequired", MissingFields(record), 0)>>]
    ELSE record

----------------------------------------------------------------------------
(* difflib.SequenceMatcher(None, a, b).ratio() > 0.8                        *)
(* Indices are 0-based and ranges half-open, as in difflib; a[x] of the     *)
(* code is a[x+1] here.  No element is junk (isjunk is None and the         *)
(* autojunk heuristic needs len(b) >= 200).                                 *)

\* Length of the longest common prefix of a[x:ahi] and b[y:bhi]
CommonRun(a, b, x, y, ahi, bhi) ==
    LET lim == IF ahi - x < bhi - y THEN ahi - x ELSE bhi - y
        bad == {d \in 0..(lim-1) : a[x+d+1] # b[y+d+1]}
    IN  IF bad = {} THEN lim ELSE CHOOSE d \in bad : \A e \in bad : d <= e

\* find_longest_match: (x, y, k) with a[x:x+k] = b[y:y+k] inside a[alo:ahi],
\* b[blo:bhi] and k maximal; of those, the one starting earliest in a; of
\* those, the one starting earliest in b.  (alo, blo, 0) if nothing matches.
find_longest_match(a, b, alo, ahi, blo, bhi) ==
    LET runs == {<<x, y, CommonRun(a, b, x, y, ahi, bhi)>> :
                    x \in alo..(ahi-1), y \in blo..(bhi-1)}
        best == {c \in runs : c[3] > 0 /\ \A o \in runs : o[3] <= c[3]}
    IN  IF best = {} THEN <<alo, blo, 0>>
        ELSE CHOOSE c \in best : \A o \in best :
                c[1] < o[1] \/ (c[1] = o[1] /\ c[2] <= o[2])

\* get_matching_blocks: total size of the blocks found by splitting around
\* the longest match and recursing to its left and to its right.
RECURSIVE MatchedSize(_, _, _, _, _, _)
MatchedSize(a, b, alo, ahi, blo, bhi) ==
    LET m == find_longest_match(a, b, alo, ahi, blo, bhi)
        x == m[1]
        y == m[2]
        k == m[3]
    IN  IF k = 0 THEN 0
        ELSE k + (IF alo < x /\ blo < y THEN MatchedSize(a, b, alo, x, blo, y) ELSE 0)
               + (IF x + k < ahi /\ y + k < bhi
                  THEN MatchedSize(a, b, x + k, ahi, y + k, bhi) ELSE 0)

\* ratio() = 2.0 * M / T (1.0 when T = 0);  2M/T > 0.8  iff  5M > 2T.
SimilarityAbove(a, b) ==
    LET T == Len(a) + Len(b)
    IN  IF T = 0 THEN TRUE
        ELSE 5 * MatchedSize(a, b, 0, Len(a), 0, Len(b)) > 2 * T

----------------------------------------------------------------------------
(* deduplicate_records *)

Keys == {"name", "category", "city", "address", "postcode", "phone", "website",
         "services", "rating", "reviewsCount", "bookingLink", "logoUrl",
         "isClaimed", "description", "seoTitle", "seoDescription", "tags",
         "latitude", "longitude", "status", "notes"}

\* Python truthiness of the value held under `key`
Falsy(key, value) ==
    IF key \in {"rating", "reviewsCount"} THEN value = 0
    ELSE IF key = "isClaimed" THEN value = FALSE
    ELSE IF key \in {"latitude", "longitude"} THEN value = NoneVal
    ELSE IF key = "status" THEN value = ""
    ELSE value = <<>>

WebsiteMatch(record, other_record) ==
    /\ record.website # <<>>
    /\ other_record.website # <<>>
    /\ StrLower(UrlNetloc(record.website)) = StrLower(UrlNetloc(other_record.website))

\* Criterion (b) without the test that the postcode area is non-empty
NameMatch_any_postcode(record, other_record) ==
    /\ record.name # <<>>
    /\ other_record.name # <<>>
    /\ SimilarityAbove(StrLower(record.name), StrLower(other_record.name))
    /\ Take(record.postcode, 4) = Take(other_record.postcode, 4)

NameMatch(record, other_record) ==
    /\ record.name # <<>>
    /\ other_record.name # <<>>
    /\ SimilarityAbove(StrLower(record.name), StrLower(other_record.name))
    /\ Take(record.postcode, 4) = Take(other_record.postcode, 4)
    /\ Take(record.postcode, 4) # <<>>

\* The duplicate test with criterion (a) only
is_duplicate_website_only(record, other_record) ==
    WebsiteMatch(record, other_record)

is_duplicate(record, other_record) ==
    WebsiteMatch(record, other_record) \/ NameMatch(record, other_record)

\* The inner scan for base i: the later, not yet consumed indices that match
\* records[i], in ascending order.
RECURSIVE ScanFrom(_, _, _, _)
ScanFrom(recs, merged, b, j) ==
    IF j > Len(recs) THEN <<>>
    ELSE IF j \notin merged /\ is_duplicate(recs[b], recs[j])
         THEN <<j>> \o ScanFrom(recs, merged, b, j + 1)
         ELSE ScanFrom(recs, merged, b, j + 1)

\* The inner scan without the `if j in merged_indices: continue`
Duplicates_ignore_consumed(recs, merged, b) == ScanFrom(recs, {}, b, b + 1)

\* The inner scan over enumerate(records) instead of records[i+1:]
Duplicates_from_start(recs, merged, b) == ScanFrom(recs, merged, b, 1)

Duplicates(recs, merged, b) == ScanFrom(recs, merged, b, b + 1)

\* The merge with the duplicate's values taking priority over the base's
MergeData_dup_priority(best_record, dup_record) ==
    [key \in Keys |->
        IF ~Falsy(key, dup_record[key]) THEN dup_record[key] ELSE best_record[key]]

\* Merge data from duplicate into best record
MergeData(best_record, dup_record) ==
    [key \in Keys |->
        IF Falsy(key, best_record[key]) /\ ~Falsy(key, dup_record[key])
        THEN dup_record[key]
        ELSE best_record[key]]

\* The mark with `notes =` in place of `notes +=`
MarkMerged_overwrite(dup_record, best_record) ==
    [dup_record EXCEPT !["status"] = "MERGED_DUPLICATE",
                       !["notes"]  = <<Note("MergedInto", best_record["name"], 0)>>]

\* Mark duplicate as merged; best_record is the base after absorbing it
MarkMerged(dup_record, best_record) ==
    [dup_record EXCEPT !["status"] = "MERGED_DUPLICATE",
                       !["notes"]  = @ \o <<Note("MergedInto", best_record["name"], 0)>>]

\* The loop over `duplicates`: the base after absorbing them all, and the
\* marked duplicates in the order they are appended to the output.
RECURSIVE MergeLoop(_, _, _)
MergeLoop(best_record, dups, recs) ==
    IF dups = <<>> THEN [best |-> best_record, out |-> <<>>]
    ELSE LET merged == MergeData(best_record, recs[Head(dups)])
             rest   == MergeLoop(merged, Tail(dups), recs)
         IN  [best |-> rest.best,
              out  |-> <<MarkMerged(recs[Head(dups)], merged)>> \o rest.out]

\* best_record as appended to the output
FinishBase(best_record, dups) ==
    IF dups # <<>>
    THEN [best_record EXCEPT !["notes"] = @ \o <<Note("MergedCount", <<>>, Len(dups))>>]
    ELSE best_record

SeqToSet(s) == {s[k] : k \in 1..Len(s)}

----------------------------------------------------------------------------
(* enrich_with_geodata and check_website_availability *)

\* What the geocoding request can do: answer OK with a result, answer with
\* another status or no result, or raise.
GeoOutcomes == {"OK", "FAILED", "ERROR"}

LAT == "lat"
LNG == "lng"

AddressParts(record) ==
    (IF record["address"] # <<>> THEN <<record["address"]>> ELSE <<>>)
    \o (IF record["city"] # <<>> THEN <<record["city"]>> ELSE <<>>)
    \o (IF record["postcode"] # <<>> THEN <<record["postcode"]>> ELSE <<>>)

\* enrich_with_geodata that looks at the address parts before the credential
enrich_with_geodata_parts_first(record, outcome) ==
    IF AddressParts(record) = <<>> THEN record
    ELSE IF ~google_api_key
    THEN [record EXCEPT !["notes"] = @ \o <<Note("NoGoogleApiKey", <<>>, 0)>>]
    ELSE IF outcome = "OK"
         THEN [record EXCEPT !["latitude"] = LAT, !["longitude"] = LNG]
    ELSE IF outcome = "FAILED"
         THEN [record EXCEPT !["notes"] = @ \o <<Note("GeocodingFailed", <<>>, 0)>>]
    ELSE [record EXCEPT !["notes"] = @ \o <<Note("GeocodingError", <<>>, 0)>>]

enrich_with_geodata(record, outcome) ==
    IF ~google_api_key
    THEN [record EXCEPT !["notes"] = @ \o <<Note("NoGoogleApiKey", <<>>, 0)>>]
    ELSE IF AddressParts(record) = <<>> THEN record
    ELSE IF outcome = "OK"
         THEN [record EXCEPT !["latitude"] = LAT, !["longitude"] = LNG]
    ELSE IF outcome = "FAILED"
         THEN [record EXCEPT !["notes"] = @ \o <<Note("GeocodingFailed", <<>>, 0)>>]
    ELSE [record EXCEPT !["notes"] = @ \o <<Note("GeocodingError", <<>>, 0)>>]

\* Whether enrich_with_geodata issues the request
GeocodeRequested(record) == google_api_key /\ AddressParts(record) # <<>>

\* What the HEAD request can do: answer below 400, answer with a status
\* >= 400 that reaches the `response.status >= 400` branch, or raise
\* (urlopen raises HTTPError for 4xx/5xx, URLError, timeouts).
WebOutcomes == {"OK", "STATUS_ERROR", "EXCEPTION"}

\* The check without the `if record['status'] == 'READY'` tests
check_website_availability_always(record, outcome) ==
    IF record["website"] = <<>> THEN record
    ELSE IF Contains(record["website"], DEMO)
         THEN [record EXCEPT !["notes"] = @ \o <<Note("DemoDomainSkipped", <<>>, 0)>>]
    ELSE IF outcome = "OK" THEN record
    ELSE [record EXCEPT
            !["notes"]  = @ \o <<Note(IF outcome = "STATUS_ERROR"
                                      THEN "WebsiteUnreachable"
                                      ELSE "WebsiteCheckFailed", <<>>, 0)>>,
            !["status"] = "NEEDS_REVIEW"]

check_website_availability(record, outcome) ==
    IF record["website"] = <<>> THEN record
    ELSE IF Contains(record["website"], DEMO)
         THEN [record EXCEPT !["notes"] = @ \o <<Note("DemoDomainSkipped", <<>>, 0)>>]
    ELSE IF outcome = "OK" THEN record
    ELSE [record EXCEPT
            !["notes"]  = @ \o <<Note(IF outcome = "STATUS_ERROR"
                                      THEN "WebsiteUnreachable"
                                      ELSE "WebsiteCheckFailed", <<>>, 0)>>,
            !["status"] = IF @ = "READY" THEN "NEEDS_REVIEW" ELSE @]

\* Whether check_website_availability issues the request
WebsiteRequested(record) ==
    record["website"] # <<>> /\ ~Contains(record["website"], DEMO)

----------------------------------------------------------------------------
(* generate_seo_content *)

T_IsAPrivate     == <<" ","i","s"," ","a"," ","p","r","i","v","a","t","e"," ">>
T_PracticeIn     == <<" ","p","r","a","c","t","i","c","e"," ","l","o","c","a","t","e","d"," ","i","n"," ">>
T_WeOffer        == <<"W","e"," ","o","f","f","e","r"," ">>
T_AndOther       == <<" ","a","n","d"," ","o","t","h","e","r"," ","s","e","r","v","i","c","e","s">>
T_OurTeam        == <<"O","u","r"," ","e","x","p","e","r","i","e","n","c","e","d"," ","t","e","a","m"," ","p","r","o","v","i","d","e","s"," ","h","i","g","h","-","q","u","a","l","i","t","y"," ","p","r","i","v","a","t","e"," ","h","e","a","l","t","h","c","a","r","e"," ","s","e","r","v","i","c","e","s"," ","t","o"," ","p","a","t","i","e","n","t","s"," ","i","n"," ">>
T_Surrounding    == <<" ","a","n","d"," ","s","u","r","r","o","u","n","d","i","n","g"," ","a","r","e","a","s",".">>
T_ToBook         == <<"T","o"," ","b","o","o","k"," ","a","n"," ","a","p","p","o","i","n","t","m","e","n","t",","," ">>
T_VisitWebsite   == <<"v","i","s","i","t"," ","o","u","r"," ","w","e","b","s","i","t","e">>
T_CallUs         == <<"c","a","l","l"," ","u","s">>
T_Or             == <<" ","o","r"," ">>
T_In             == <<" ","i","n"," ">>
T_Bar            == <<" ","|"," ">>
T_Ellipsis       == <<".",".",".">>
T_Professional   == <<"P","r","o","f","e","s","s","i","o","n","a","l"," ">>
T_ServicesAt     == <<" ","s","e","r","v","i","c","e","s"," ","a","t"," ">>
T_DotSpace       == <<"."," ">>
T_Specialising   == <<"S","p","e","c","i","a","l","i","s","i","n","g"," ","i","n"," ">>
T_BookToday      == <<"B","o","o","k"," ","y","o","u","r"," ","a","p","p","o","i","n","t","m","e","n","t"," ","t","o","d","a","y",".">>
T_Private        == <<"p","r","i","v","a","t","e">>
T_CommaSpace     == <<","," ">>

SeoTitleMax == 60
SeoDescMax  == 155
SeoDescCut  == 152

\* sep.join(parts)
RECURSIVE Join(_, _)
Join(parts, sep) ==
    IF parts = <<>> THEN <<>>
    ELSE IF Len(parts) = 1 THEN parts[1]
    ELSE parts[1] \o sep \o Join(Tail(parts), sep)

\* s[:m] with Python's meaning of a negative m
PySliceTo(s, m) ==
    IF m >= 0 THEN Take(s, m)
    ELSE Take(s, IF Len(s) + m > 0 THEN Len(s) + m ELSE 0)

\* s.replace(' ', '-')
Hyphenate(s) == [k \in 1..Len(s) |-> IF s[k] = " " THEN "-" ELSE s[k]]

SeoDescriptionText(record) ==
    LET name == record["name"]
        category == record["category"]
        city == record["city"]
        services == record["services"]
        intro == name \o T_IsAPrivate \o StrLower(category) \o T_PracticeIn \o city \o <<".">>
        offer == IF services # <<>>
                 THEN <<T_WeOffer \o Join(Take(services, 3), T_CommaSpace)
                        \o (IF Len(services) > 3 THEN T_AndOther ELSE <<>>) \o <<".">> >>
                 ELSE <<>>
        team  == T_OurTeam \o city \o T_Surrounding
        contact_info == (IF record["website"] # <<>> THEN <<T_VisitWebsite>> ELSE <<>>)
                        \o (IF record["phone"] # <<>> THEN <<T_CallUs>> ELSE <<>>)
        book  == IF contact_info # <<>>
                 THEN <<T_ToBook \o Join(contact_info, T_Or) \o <<".">> >>
                 ELSE <<>>
    IN  Join(<<intro>> \o offer \o <<team>> \o book, <<" ">>)

SeoTitleText(record) ==
    LET name == record["name"]
        prefix == record["category"] \o T_In \o record["city"] \o T_Bar
        seo_title == prefix \o name
        max_name_length == SeoTitleMax - Len(prefix)
        truncated_name == IF Len(name) > max_name_length
                          THEN PySliceTo(name, max_name_length - 3) \o T_Ellipsis
                          ELSE name
    IN  IF Len(seo_title) > SeoTitleMax THEN prefix \o truncated_name ELSE seo_title

\* seo_desc before the length test
SeoMetaFull(record) ==
    LET services == record["services"]
    IN  T_Professional \o StrLower(record["category"]) \o T_ServicesAt
        \o record["name"] \o T_In \o record["city"] \o T_DotSpace
        \o (IF services # <<>>
            THEN T_Specialising \o StrLower(services[1]) \o T_DotSpace
            ELSE <<>>)
        \o T_BookToday

\* The truncation that keeps SeoDescMax characters before the ellipsis
SeoMetaText_cut_at_max(record) ==
    LET seo_desc == SeoMetaFull(record)
    IN  IF Len(seo_desc) > SeoDescMax THEN Take(seo_desc, SeoDescMax) \o T_Ellipsis
        ELSE seo_desc

SeoMetaText(record) ==
    LET seo_desc == SeoMetaFull(record)
    IN  IF Len(seo_desc) > SeoDescMax THEN Take(seo_desc, SeoDescCut) \o T_Ellipsis
        ELSE seo_desc

\* tags = record['tags'] in place of tags = ['private']: the new tags are
\* added to the ones the record has
SeoTags_accumulate(record) ==
    LET services == Take(record["services"], 5)
    IN  record["tags"] \o <<T_Private>>
        \o (IF record["city"] # <<>> THEN <<StrLower(record["city"])>> ELSE <<>>)
        \o (IF record["category"] # <<>> THEN <<StrLower(record["category"])>> ELSE <<>>)
        \o [k \in 1..Len(services) |-> Hyphenate(StrLower(services[k]))]

SeoTags(record) ==
    LET services == Take(record["services"], 5)
    IN  <<T_Private>>
        \o (IF record["city"] # <<>> THEN <<StrLower(record["city"])>> ELSE <<>>)
        \o (IF record["category"] # <<>> THEN <<StrLower(record["category"])>> ELSE <<>>)
        \o [k \in 1..Len(services) |-> Hyphenate(StrLower(services[k]))]

generate_seo_content(record) ==
    LET complete == /\ record["name"] # <<>>
                    /\ record["category"] # <<>>
                    /\ record["city"] # <<>>
    IN  [record EXCEPT
            !["description"]    = IF complete THEN SeoDescriptionText(record) ELSE @,
            !["seoTitle"]       = IF complete THEN SeoTitleText(record) ELSE @,
            !["seoDescription"] = IF complete THEN SeoMetaText(record) ELSE @,
            !["tags"]           = SeoTags(record)]

----------------------------------------------------------------------------
(* load_csv *)

RawKeys == {"name", "category", "city", "address", "postcode", "phone",
            "website", "services", "bookinglink", "logourl"}

\* A row of the file after header normalisation.  A column the file does not
\* have and an empty cell are the same to clean_record, so every row carries
\* the ten recognised columns.
Row(name, category, city, address, postcode, phone, website, services) ==
    [name |-> name, category |-> category, city |-> city, address |-> address,
     postcode |-> postcode, phone |-> phone, website |-> website,
     services |-> services, bookinglink |-> <<>>, logourl |-> <<>>]

\* f.rows are the rows of the file; f.error_at = k >= 1 means that reading
\* row k raises (k = 1 also stands for a file that cannot be opened), 0 that
\* nothing raises.  The rows read before the exception stay in `records`,
\* which is what load_csv returns.
load_csv(f) ==
    LET n == IF f.error_at = 0 THEN Len(f.rows) ELSE f.error_at - 1
    IN  [k \in 1..n |-> [key \in RawKeys |-> Strip(f.rows[k][key])]]

----------------------------------------------------------------------------
(* Inputs *)

MaxRecords == 3

R_AB    == <<"A","B">>
R_cd    == <<"c","d">>
R_ef    == <<"e","f">>
R_ababa == <<"a","b","a","b","a">>
R_abbabab == <<"a","b","b","a","b","a","b">>
R_city  == <<"y","o">>
R_addr  == <<"1"," ","x">>
R_pc1   == <<"m","1"," ","1","a","a">>
R_pc2   == <<"m","1"," ","1","b","b">>
R_pc3   == <<"m","2"," ","2","c","c">>
R_web_a == <<"a",".","u","k">>
R_web_A == <<"h","t","t","p",":","/","/","A",".","u","k","/","p">>
R_web_B == <<"h","t","t","p",":","/","/","B",".","u","k","/","p">>
R_web_b == <<"b",".","u","k">>
R_web_x == <<"x">>
R_web_demo == <<"d",".","e","x","a","m","p","l","e",".","c","o","m">>
R_ph0   == <<"0","7">>
R_ph44  == <<"+","4","4"," ","2">>
R_phna  == <<"n","/","a">>
R_svc   == <<"s"," ","t",";"," ","u",",">>

\* The rows the whole pipeline is run on
PipelineRows ==
    { Row(R_AB, <<"d","e","n","t","a","l">>, R_city, <<>>, R_pc1, R_ph0, R_web_a, R_svc),
      Row(R_cd, <<"g","p">>, <<>>, R_addr, <<>>, <<>>, R_web_B, <<>>),
      Row(R_ef, <<"s","p","a">>, R_city, <<>>, R_pc1, R_phna, R_web_x, <<>>),
      Row(<<"g","h">>, <<"p","h","y","s","i","o">>, R_city, R_addr, <<>>, R_ph44, R_web_demo, <<>>),
      Row(<<>>, <<>>, <<>>, <<>>, <<>>, <<>>, R_web_a, <<>>) }

Files ==
    UNION { { [rows |-> rows, error_at |-> e] :
                rows \in [1..n -> PipelineRows], e \in 0..n } : n \in 0..MaxRecords }

\* The rows clean_record and check_required_fields are applied to on their own
CleanRows ==
    { Row(n, c, ci, a, p, ph, w, sv) :
        n  \in {<<>>, R_AB, <<" ","a","b"," ","c","d"," ">>},
        c  \in {<<>>, <<" ">>, <<"g","p">>, <<" ","D","e","n","t","a","l">>, <<"o","t","h","e","r">>,
                <<"s","p","a">>, <<"c","o","s","m","e","t","i","c">>, <<"P","H","Y","S","I","O">>},
        ci \in {<<>>, R_city},
        a  \in {<<>>, R_addr},
        p  \in {<<>>, R_pc1},
        ph \in {<<>>, R_ph0, R_ph44, R_phna},
        w  \in {<<>>, R_web_a, R_web_x, R_web_A},
        sv \in {<<>>, R_svc} }

\* The rows deduplicate_records is run on (after cleaning and validation):
\* names that are empty, equal or similar; postcodes that are empty, equal,
\* equal in their first four characters only, or different; websites that
\* are empty or have equal (up to case) or different hosts.
DRow(name, address, postcode, phone, website) ==
    Row(name, <<"g","p">>, R_city, address, postcode, phone, website, <<>>)

DedupRows ==
    { DRow(R_ababa,   <<>>,   R_pc1, <<>>,  <<>>),
      DRow(R_abbabab, R_addr, R_pc1, <<>>,  <<>>),
      DRow(R_abbabab, <<>>,   R_pc2, R_ph0, <<>>),
      DRow(R_ababa,   <<>>,   R_pc3, <<>>,  <<>>),
      DRow(R_ababa,   <<>>,   <<>>,  R_ph0, <<>>),
      DRow(R_ababa,   <<>>,   R_pc1, <<>>,  R_web_a),
      DRow(R_abbabab, <<>>,   R_pc3, R_ph0, R_web_A),
      DRow(<<>>,      <<>>,   <<>>,  <<>>,  R_web_a),
      DRow(R_ababa,   R_addr, R_pc1, <<>>,  R_web_b),
      DRow(<<>>,      <<>>,   R_pc1, R_phna, <<>>),
      DRow(<<>>,      R_addr, <<>>,  <<>>,  R_web_A),
      DRow(R_abbabab, <<>>,   <<>>,  <<>>,  R_web_b),
      DRow(R_ababa,   <<>>,   <<>>,  <<>>,  R_web_a) }

----------------------------------------------------------------------------
(* process_records *)

NoStep == [op |-> "none", k |-> 0, outcome |-> ""]

\* The file once load_csv has returned: closed, nothing left to read
NoFile == [rows |-> <<>>, error_at |-> 0]

\* Nothing written yet, publish_to_api not called yet
NoOutputs == [written |-> FALSE]
NoResult  == [called |-> FALSE]

\* process_records on its own: main's state is not touched
MainIdle ==
    /\ api_base = FALSE
    /\ outputs = NoOutputs
    /\ api_result = NoResult
    /\ posts = <<>>

Init ==
    /\ pc = "load"
    /\ file \in Files
    /\ raw_records = <<>>
    /\ i = 0
    /\ cleaned = <<>>
    /\ records = <<>>
    /\ merged_indices = {}
    /\ deduplicated = <<>>
    /\ origin = <<>>
    /\ base_of = <<>>
    /\ google_api_key \in BOOLEAN
    /\ last = NoStep
    /\ MainIdle

\* 1. Load data
LoadCsv ==
    /\ pc = "load"
    /\ raw_records' = load_csv(file)
    /\ pc' = IF raw_records' = <<>> THEN "error" ELSE "clean"
    /\ i' = 1
    /\ file' = NoFile
    /\ last' = [op |-> "load", k |-> 0, outcome |-> ""]
    /\ UNCHANGED <<cleaned, records, merged_indices, deduplicated, origin,
                   base_of, google_api_key, mainVars>>

\* 2. Clean records: cleaned = self.clean_record(record).  The exception of
\* urlparse is caught nowhere and leaves process_records.
CleanRecord ==
    /\ pc = "clean"
    /\ IF CleanRaises(raw_records[i])
       THEN /\ cleaned' = cleaned
            /\ pc' = "raised"
            /\ last' = [op |-> "clean", k |-> i, outcome |-> "ValueError"]
       ELSE /\ cleaned' = <<clean_record(raw_records[i])>>
            /\ pc' = "check"
            /\ last' = [op |-> "clean", k |-> i, outcome |-> ""]
    /\ UNCHANGED <<file, raw_records, i, records, merged_indices, deduplicated,
                   origin, base_of, google_api_key, mainVars>>

\* cleaned = self.check_required_fields(cleaned); cleaned_records.append(cleaned)
CheckRequired ==
    /\ pc = "check"
    /\ records' = Append(records, check_required_fields(cleaned[1]))
    /\ cleaned' = <<>>
    /\ base_of' = [k \in 1..Len(records') |-> 0]
    /\ IF i = Len(raw_records)
       THEN pc' = "dedup" /\ i' = 1
       ELSE pc' = "clean" /\ i' = i + 1
    /\ last' = [op |-> "check", k |-> i, outcome |-> ""]
    /\ UNCHANGED <<file, raw_records, merged_indices, deduplicated, origin,
                   google_api_key, mainVars>>

\* 3. Deduplicate: one iteration of the outer loop, for an index already consumed
DedupSkip ==
    /\ pc = "dedup"
    /\ i \in merged_indices
    /\ IF i = Len(records)
       THEN pc' = "enrich" /\ i' = 1
       ELSE pc' = "dedup" /\ i' = i + 1
    /\ last' = [op |-> "dedup_skip", k |-> i, outcome |-> ""]
    /\ UNCHANGED <<file, raw_records, cleaned, records, merged_indices,
                   deduplicated, origin, base_of, google_api_key, mainVars>>

\* One iteration of the outer loop for a base: scan, merge, mark, append
DedupBase ==
    /\ pc = "dedup"
    /\ i \notin merged_indices
    /\ \E duplicates \in {Duplicates(records, merged_indices, i)} :
       \E res \in {MergeLoop(records[i], duplicates, records)} :
           /\ merged_indices' = merged_indices \cup SeqToSet(duplicates)
           /\ base_of' = [j \in 1..Len(records) |->
                            IF j \in SeqToSet(duplicates) THEN i ELSE base_of[j]]
           /\ records' = [j \in 1..Len(records) |->
                            IF \E d \in 1..Len(duplicates) : duplicates[d] = j
                            THEN res.out[CHOOSE d \in 1..Len(duplicates) : duplicates[d] = j]
                            ELSE records[j]]
           /\ deduplicated' = deduplicated \o res.out
                              \o <<FinishBase(res.best, duplicates)>>
           /\ origin' = origin \o duplicates \o <<i>>
    /\ IF i = Len(records)
       THEN pc' = "enrich" /\ i' = 1
       ELSE pc' = "dedup" /\ i' = i + 1
    /\ last' = [op |-> "dedup_base", k |-> i, outcome |-> ""]
    /\ UNCHANGED <<file, raw_records, cleaned, google_api_key, mainVars>>

\* The enrichment loop without its status test
EnrichApplies_always(record) == TRUE

\* if record['status'] not in ['MERGED_DUPLICATE']
EnrichApplies(record) == record["status"] \notin {"MERGED_DUPLICATE"}

\* The SEO loop without its status test
SeoApplies_always(record) == TRUE

\* The SEO loop for READY records only
SeoApplies_ready_only(record) == record["status"] = "READY"

\* if record['status'] in ['READY', 'NEEDS_REVIEW']
SeoApplies(record) == record["status"] \in {"READY", "NEEDS_REVIEW"}

AfterEnrich ==
    IF i = Len(deduplicated)
    THEN pc' = "seo" /\ i' = 1
    ELSE pc' = "enrich" /\ i' = i + 1

\* 4. Enrich: a MERGED_DUPLICATE record is passed through
EnrichSkip ==
    /\ pc = "enrich"
    /\ ~EnrichApplies(deduplicated[i])
    /\ AfterEnrich
    /\ last' = [op |-> "enrich_skip", k |-> i, outcome |-> ""]
    /\ UNCHANGED <<file, raw_records, cleaned, records, merged_indices,
                   deduplicated, origin, base_of, google_api_key, mainVars>>

\* record = self.enrich_with_geodata(record)
Geocode ==
    /\ pc = "enrich"
    /\ EnrichApplies(deduplicated[i])
    /\ \E outcome \in (IF GeocodeRequested(deduplicated[i]) THEN GeoOutcomes ELSE {"NONE"}) :
          /\ deduplicated' = [deduplicated EXCEPT
                                ![i] = enrich_with_geodata(@, outcome)]
          /\ last' = [op |-> "geocode", k |-> i, outcome |-> outcome]
    /\ pc' = "website"
    /\ UNCHANGED <<file, raw_records, i, cleaned, records, merged_indices,
                   origin, base_of, google_api_key, mainVars>>

\* record = self.check_website_availability(record)
CheckWebsite ==
    /\ pc = "website"
    /\ \E outcome \in (IF WebsiteRequested(deduplicated[i]) THEN WebOutcomes ELSE {"NONE"}) :
          /\ deduplicated' = [deduplicated EXCEPT
                                ![i] = check_website_availability(@, outcome)]
          /\ last' = [op |-> "website", k |-> i, outcome |-> outcome]
    /\ AfterEnrich
    /\ UNCHANGED <<file, raw_records, cleaned, records, merged_indices,
                   origin, base_of, google_api_key, mainVars>>

AfterSeo ==
    IF i = Len(deduplicated)
    THEN pc' = "done" /\ i' = i
    ELSE pc' = "seo" /\ i' = i + 1

\* 5. Generate SEO content
SeoGenerate ==
    /\ pc = "seo"
    /\ SeoApplies(deduplicated[i])
    /\ deduplicated' = [deduplicated EXCEPT ![i] = generate_seo_content(@)]
    /\ AfterSeo
    /\ last' = [op |-> "seo", k |-> i, outcome |-> ""]
    /\ UNCHANGED <<file, raw_records, cleaned, records, merged_indices,
                   origin, base_of, google_api_key, mainVars>>

SeoSkip ==
    /\ pc = "seo"
    /\ ~SeoApplies(deduplicated[i])
    /\ AfterSeo
    /\ last' = [op |-> "seo_skip", k |-> i, outcome |-> ""]
    /\ UNCHANGED <<file, raw_records, cleaned, records, merged_indices,
                   deduplicated, origin, base_of, google_api_key, mainVars>>

Next ==
    \/ LoadCsv
    \/ CleanRecord
    \/ CheckRequired
    \/ DedupSkip
    \/ DedupBase
    \/ EnrichSkip
    \/ Geocode
    \/ CheckWebsite
    \/ SeoGenerate
    \/ SeoSkip

Spec == Init /\ [][Next]_vars

----------------------------------------------------------------------------
(* process_records run to its end: the scheduler is the Python interpreter,  *)
(* which executes the next statement as long as there is one                 *)

R_web_bad == <<"[">>

\* A READY row with a website to check, a row with the same website and
\* nothing else, and a row whose website urlparse rejects
LiveRows ==
    { Row(R_AB, <<"d","e","n","t","a","l">>, R_city, <<>>, R_pc1, R_ph0, R_web_a, R_svc),
      Row(<<>>, <<>>, <<>>, <<>>, <<>>, <<>>, R_web_a, <<>>),
      Row(R_cd, <<"g","p">>, R_city, R_addr, <<>>, R_ph0, R_web_bad, <<>>) }

LiveFiles ==
    UNION { { [rows |-> rows, error_at |-> e] :
                rows \in [1..n -> LiveRows], e \in 0..n } : n \in 1..MaxRecords }

InitLive ==
    /\ pc = "load"
    /\ file \in LiveFiles
    /\ raw_records = <<>>
    /\ i = 0
    /\ cleaned = <<>>
    /\ records = <<>>
    /\ merged_indices = {}
    /\ deduplicated = <<>>
    /\ origin = <<>>
    /\ base_of = <<>>
    /\ google_api_key \in BOOLEAN
    /\ last = NoStep
    /\ MainIdle

SpecLive == InitLive /\ [][Next]_vars /\ WF_vars(Next)

----------------------------------------------------------------------------
(* clean_record followed by check_required_fields, on one raw map *)

\* The row {name: 'ABC CLINIC', category: 'dental', phone: '07123456789',
\* website: 'abcclinic.co.uk', city: 'leeds', postcode: 'ls1 1aa'}
AbcClinicRow ==
    Row(<<"A","B","C"," ","C","L","I","N","I","C">>, <<"d","e","n","t","a","l">>, <<"l","e","e","d","s">>, <<>>,
        <<"l","s","1"," ","1","a","a">>, <<"0","7","1","2","3","4","5","6","7","8","9">>,
        <<"a","b","c","c","l","i","n","i","c",".","c","o",".","u","k">>, <<>>)

\* A complete row whose website is '[', which urlparse rejects
BadWebsiteRow ==
    Row(R_cd, <<"g","p">>, R_city, R_addr, <<>>, R_ph0, R_web_bad, <<>>)

InitClean ==
    /\ pc = "clean"
    /\ file = NoFile
    /\ raw_records \in {<<r>> : r \in CleanRows \cup {AbcClinicRow, BadWebsiteRow}}
    /\ i = 1
    /\ cleaned = <<>>
    /\ records = <<>>
    /\ merged_indices = {}
    /\ deduplicated = <<>>
    /\ origin = <<>>
    /\ base_of = <<>>
    /\ google_api_key = FALSE
    /\ last = NoStep
    /\ MainIdle

NextClean == CleanRecord \/ CheckRequired

SpecClean == InitClean /\ [][NextClean]_vars

----------------------------------------------------------------------------
(* deduplicate_records on cleaned and validated records *)

Validated(rows) ==
    [k \in 1..Len(rows) |->
        check_required_fields(clean_record([key \in RawKeys |-> Strip(rows[k][key])]))]

InitDedup ==
    /\ pc = "dedup"
    /\ file = NoFile
    /\ raw_records \in UNION {[1..n -> DedupRows] : n \in 1..MaxRecords}
    /\ i = 1
    /\ cleaned = <<>>
    /\ records = Validated(raw_records)
    /\ merged_indices = {}
    /\ deduplicated = <<>>
    /\ origin = <<>>
    /\ base_of = [k \in 1..Len(raw_records) |-> 0]
    /\ google_api_key = FALSE
    /\ last = NoStep
    /\ MainIdle

NextDedup == DedupSkip \/ DedupBase

SpecDedup == InitDedup /\ [][NextDedup]_vars

----------------------------------------------------------------------------
(* generate_seo_content on one record, from enrichment on, and called again *)

\* c followed by n-1 times d
Word(c, d, n) == [k \in 1..n |-> IF k = 1 THEN c ELSE d]

R_svc6    == <<"a",",","b",",","c",",","d",",","e",",","f">>

\* Names of 2, 5, 40 and 70 characters; cities of 2, 41, 43 and 60; with the
\* category Aesthetics the prefix of the title is 19, 58, 60 and 77 long.
SeoRows ==
    { Row(n, c, ci, <<>>, R_pc1, R_ph0, w, sv) :
        n  \in {<<>>, R_AB, R_ababa, Word("n", "a", 40), Word("n", "a", 70)},
        c  \in {<<"g","p">>, <<"c","o","s","m","e","t","i","c">>},
        ci \in {R_city, Word("c", "i", 41), Word("c", "i", 43), Word("c", "i", 60)},
        w  \in {<<>>, R_web_demo},
        sv \in {<<>>, R_svc, R_svc6, Word("L", "o", 90)} }

InitSeo ==
    /\ pc = "enrich"
    /\ file = NoFile
    /\ raw_records \in {<<r>> : r \in SeoRows}
    /\ i = 1
    /\ cleaned = <<>>
    /\ records = Validated(raw_records)
    /\ merged_indices = {}
    /\ deduplicated = records
    /\ origin = <<1>>
    /\ base_of = <<0>>
    /\ google_api_key = FALSE
    /\ last = NoStep
    /\ MainIdle

\* generate_seo_content called once more on the record it has just returned
SeoRegenerate ==
    /\ pc = "done"
    /\ last.op = "seo"
    /\ deduplicated' = [deduplicated EXCEPT ![i] = generate_seo_content(@)]
    /\ pc' = "regenerated"
    /\ last' = [op |-> "seo_again", k |-> i, outcome |-> ""]
    /\ UNCHANGED <<file, raw_records, i, cleaned, records, merged_indices,
                   origin, base_of, google_api_key, mainVars>>

NextSeo == Geocode \/ CheckWebsite \/ SeoGenerate \/ SeoSkip \/ SeoRegenerate

SpecSeo == InitSeo /\ [][NextSeo]_vars

----------------------------------------------------------------------------
(* write_outputs *)

\* [r for r in records if r['status'] == 'READY']
ReadyRecords(recs) == SelectSeq(recs, LAMBDA r : r["status"] = "READY")

\* The review filter that forgets the merged duplicates
ReviewRecords_open_only(recs) ==
    SelectSeq(recs, LAMBDA r : r["status"] \in {"NEEDS_REVIEW", "BLOCKED_MISSING_DATA"})

\* [r for r in records if r['status'] != 'READY']
ReviewRecords(recs) == SelectSeq(recs, LAMBDA r : r["status"] # "READY")

\* The row written to clinics_review.csv for a record
ReviewRow(record) ==
    [key \in {"name", "category", "city", "status", "notes"} |-> record[key]]

\* status_counts
StatusCounts(recs) ==
    [s \in {recs[k]["status"] : k \in 1..Len(recs)} |->
        Cardinality({k \in 1..Len(recs) : recs[k]["status"] = s})]

\* What write_outputs writes for result['records'] = recs and what it
\* returns; clinics_review.csv is written only when there is a row for it.
write_outputs(recs) ==
    [written        |-> TRUE,
     clinics_all    |-> recs,
     clinics_ready  |-> ReadyRecords(recs),
     review_written |-> ReviewRecords(recs) # <<>>,
     clinics_review |-> [k \in 1..Len(ReviewRecords(recs)) |->
                            ReviewRow(ReviewRecords(recs)[k])],
     status_counts  |-> StatusCounts(recs)]

----------------------------------------------------------------------------
(* publish_to_api *)

\* What the catalog service can answer to a POST: a status code, or nothing
\* at all (connection refused, timeout), written 0.
PostResponses == {0, 200, 201, 204, 409, 500}

\* urlopen returns the response only for a 2xx status; for any other status
\* it raises HTTPError, and URLError when there is no response.
UrlopenRaises(code) == code < 200 \/ code >= 300

\* The publish filter that lets every record through that is not blocked
PublishPositions_not_blocked(recs) ==
    SelectSeq([k \in 1..Len(recs) |-> k],
              LAMBDA k : recs[k]["status"] \in {"READY", "NEEDS_REVIEW"})

\* ready_records, as positions in `records`
PublishPositions(recs) ==
    SelectSeq([k \in 1..Len(recs) |-> k], LAMBDA k : recs[k]["status"] = "READY")

\* The return value when API_BASE is not set
PublishSkipped(recs) ==
    [called |-> TRUE, published |-> 0, failed |-> 0,
     skipped |-> Len(PublishPositions(recs))]

\* published, failed, failed_records before the loop, and 'skipped': 0
PublishStarted ==
    [called |-> TRUE, published |-> 0, failed |-> 0, failed_records |-> <<>>,
     skipped |-> 0]

\* Prepare API payload: the record without status, notes and category, and
\* with the category under 'type'
ApiRecord(record) ==
    [key \in (Keys \ {"status", "notes", "category"}) \cup {"type"} |->
        IF key = "type" THEN record["category"] ELSE record[key]]

\* One iteration of the loop over ready_records: the service answers `code`
PublishOne(result, record, code) ==
    IF UrlopenRaises(code)
    THEN [result EXCEPT
            !.failed = @ + 1,
            !.failed_records = Append(@, [record |-> record["name"],
                                          error  |-> [kind |-> IF code = 0 THEN "URLError"
                                                               ELSE "HTTPError",
                                                      code |-> code]])]
    ELSE IF code \in {200, 201} THEN [result EXCEPT !.published = @ + 1]
    ELSE IF code = 409 THEN [result EXCEPT !.published = @ + 1]
    ELSE [result EXCEPT
            !.failed = @ + 1,
            !.failed_records = Append(@, [record |-> record["name"],
                                          error  |-> [kind |-> "HTTP", code |-> code]])]

----------------------------------------------------------------------------
(* main *)

MainFiles ==
    { [rows |-> f.rows, error_at |-> f.error_at, exists |-> e] :
        f \in Files, e \in BOOLEAN }

InitMain ==
    /\ pc = "main"
    /\ file \in {f \in MainFiles : f.exists \/ (f.rows = <<>> /\ f.error_at = 0)}
    /\ raw_records = <<>>
    /\ i = 0
    /\ cleaned = <<>>
    /\ records = <<>>
    /\ merged_indices = {}
    /\ deduplicated = <<>>
    /\ origin = <<>>
    /\ base_of = <<>>
    /\ google_api_key = FALSE
    /\ last = NoStep
    /\ api_base \in BOOLEAN
    /\ outputs = NoOutputs
    /\ api_result = NoResult
    /\ posts = <<>>

\* if not os.path.exists(input_file): return
MainCheckInput ==
    /\ pc = "main"
    /\ pc' = IF file.exists THEN "load" ELSE "end"
    /\ last' = [op |-> "main", k |-> 0, outcome |-> IF file.exists THEN "" ELSE "missing"]
    /\ UNCHANGED <<file, raw_records, i, cleaned, records, merged_indices,
                   deduplicated, origin, base_of, google_api_key, mainVars>>

\* qa_summary = manager.write_outputs(result, output_dir), and the test for
\* READY records that follows it.  For the result {'error': ...} nothing is
\* written and result['records'] raises KeyError.
WriteOutputs ==
    /\ pc \in {"done", "error"}
    /\ IF pc = "error"
       THEN /\ outputs' = outputs
            /\ pc' = "raised"
            /\ last' = [op |-> "write", k |-> 0, outcome |-> "KeyError"]
       ELSE /\ outputs' = write_outputs(deduplicated)
            /\ pc' = IF ReadyRecords(deduplicated) # <<>> THEN "publish" ELSE "end"
            /\ last' = [op |-> "write", k |-> 0, outcome |-> ""]
    /\ UNCHANGED <<file, raw_records, i, cleaned, records, merged_indices,
                   deduplicated, origin, base_of, google_api_key,
                   api_base, api_result, posts>>

\* publish_to_api up to its loop
PublishStart ==
    /\ pc = "publish"
    /\ IF ~api_base
       THEN /\ api_result' = PublishSkipped(deduplicated)
            /\ pc' = "report"
       ELSE /\ api_result' = PublishStarted
            /\ pc' = IF PublishPositions(deduplicated) # <<>> THEN "post" ELSE "report"
    /\ i' = 1
    /\ last' = [op |-> "publish", k |-> 0, outcome |-> ""]
    /\ UNCHANGED <<file, raw_records, cleaned, records, merged_indices,
                   deduplicated, origin, base_of, google_api_key,
                   api_base, outputs, posts>>

\* One iteration of the loop over ready_records
PublishPost ==
    /\ pc = "post"
    /\ \E code \in PostResponses :
          /\ api_result' = PublishOne(api_result,
                                      deduplicated[PublishPositions(deduplicated)[i]], code)
          /\ posts' = Append(posts, [pos  |-> PublishPositions(deduplicated)[i],
                                     code |-> code,
                                     payload |-> ApiRecord(
                                        deduplicated[PublishPositions(deduplicated)[i]])])
    /\ IF i = Len(PublishPositions(deduplicated))
       THEN pc' = "report" /\ i' = i
       ELSE pc' = "post" /\ i' = i + 1
    /\ last' = [op |-> "post", k |-> PublishPositions(deduplicated)[i], outcome |-> ""]
    /\ UNCHANGED <<file, raw_records, cleaned, records, merged_indices,
                   deduplicated, origin, base_of, google_api_key,
                   api_base, outputs>>

\* main's report of api_result: api_result['failed_records'] raises KeyError
\* when the dict has no such key
MainReport ==
    /\ pc = "report"
    /\ IF "failed_records" \in DOMAIN api_result
       THEN /\ pc' = "end"
            /\ last' = [op |-> "report", k |-> 0, outcome |-> ""]
       ELSE /\ pc' = "raised"
            /\ last' = [op |-> "report", k |-> 0, outcome |-> "KeyError"]
    /\ UNCHANGED <<file, raw_records, i, cleaned, records, merged_indices,
                   deduplicated, origin, base_of, google_api_key, mainVars>>

NextMain ==
    \/ MainCheckInput
    \/ Next
    \/ WriteOutputs
    \/ PublishStart
    \/ PublishPost
    \/ MainReport

SpecMain == InitMain /\ [][NextMain]_vars

----------------------------------------------------------------------------
(* Following one record through the run *)

Inputs == 1..Len(raw_records)

OutputPos(id) == {k \in 1..Len(deduplicated) : origin[k] = id}

\* The record made from input row `id` exists
Tracked(id) ==
    \/ OutputPos(id) # {}
    \/ id <= Len(records)
    \/ (pc = "check" /\ id = i)

\* The live version of the record made from input row `id`: the element of
\* the output list once it is appended there, else the element of
\* cleaned_records, else the local `cleaned`.
Cur(id) ==
    IF OutputPos(id) # {} THEN deduplicated[CHOOSE k \in OutputPos(id) : TRUE]
    ELSE IF id <= Len(records) THEN records[id]
    ELSE cleaned[1]

IsPrefix(s, t) == Len(s) <= Len(t) /\ SubSeq(t, 1, Len(s)) = s

HasNote(record, kind) == \E k \in 1..Len(record["notes"]) : record["notes"][k].kind = kind

DataKeys == Keys \ {"status", "notes"}

----------------------------------------------------------------------------
(* Claims about the whole run (Spec) *)

AllowedTransition(s, t) ==
    \/ s = t
    \/ s = "READY" /\ t = "NEEDS_REVIEW"
    \/ s \in {"READY", "NEEDS_REVIEW"} /\ t = "BLOCKED_MISSING_DATA"
    \/ s # "MERGED_DUPLICATE" /\ t = "MERGED_DUPLICATE"

\* C1: at every moment of a run of process_records every record's status is
\* one of READY, NEEDS_REVIEW, BLOCKED_MISSING_DATA, MERGED_DUPLICATE, and
\* every step changes a record's status only along READY -> NEEDS_REVIEW,
\* READY|NEEDS_REVIEW -> BLOCKED_MISSING_DATA, any -> MERGED_DUPLICATE (so
\* never NEEDS_REVIEW -> READY, never BLOCKED_MISSING_DATA -> READY or
\* NEEDS_REVIEW).
C1_StatusTransitions ==
    /\ [](\A id \in Inputs : Tracked(id) => Cur(id)["status"] \in Statuses)
    /\ [][\A id \in Inputs :
            (Tracked(id) /\ Tracked(id)')
                => AllowedTransition(Cur(id)["status"], Cur(id)'["status"])]_vars

\* A finished run in which one record was READY after validation and was
\* downgraded by the reachability check, one is blocked and one is merged.
C1_Witness ==
    /\ pc = "done"
    /\ \E k \in 1..Len(deduplicated) :
          /\ deduplicated[k]["status"] = "NEEDS_REVIEW"
          /\ records[origin[k]]["status"] = "READY"
    /\ \E k \in 1..Len(deduplicated) :
          deduplicated[k]["status"] = "BLOCKED_MISSING_DATA"
    /\ \E k \in 1..Len(deduplicated) :
          deduplicated[k]["status"] = "MERGED_DUPLICATE"

\* C2: once a record is MERGED_DUPLICATE no step changes its status, the
\* step that merges it and every later step leave all its fields other than
\* status and notes as they were, and a merged record never has coordinates
\* or SEO fields.
C2_MergedTerminal ==
    /\ [](\A k \in 1..Len(deduplicated) :
            deduplicated[k]["status"] = "MERGED_DUPLICATE"
                => /\ deduplicated[k]["latitude"] = NoneVal
                   /\ deduplicated[k]["longitude"] = NoneVal
                   /\ deduplicated[k]["description"] = <<>>
                   /\ deduplicated[k]["seoTitle"] = <<>>
                   /\ deduplicated[k]["seoDescription"] = <<>>
                   /\ deduplicated[k]["tags"] = <<>>)
    /\ [][\A id \in Inputs :
            (Tracked(id) /\ Tracked(id)')
                => /\ Cur(id)["status"] = "MERGED_DUPLICATE" => Cur(id)' = Cur(id)
                   /\ Cur(id)'["status"] = "MERGED_DUPLICATE"
                        => \A key \in DataKeys : Cur(id)'[key] = Cur(id)[key]]_vars

\* A finished run with a geocoding key, in which a merged record carries a
\* name, a website and an address to geocode.
C2_Witness ==
    /\ pc = "done"
    /\ google_api_key
    /\ \E k \in 1..Len(deduplicated) :
          /\ deduplicated[k]["status"] = "MERGED_DUPLICATE"
          /\ deduplicated[k]["name"] # <<>>
          /\ deduplicated[k]["website"] # <<>>
          /\ AddressParts(deduplicated[k]) # <<>>
          /\ k < Len(deduplicated)

\* C3: every step of the run leaves each record's notes with its previous
\* notes as a prefix.
C3_NotesAppendOnly ==
    [][\A id \in Inputs :
          (Tracked(id) /\ Tracked(id)')
              => IsPrefix(Cur(id)["notes"], Cur(id)'["notes"])]_vars

\* A finished run in which a base that had notes absorbed a duplicate that had
\* notes, and then failed its reachability check.
C3_Witness ==
    /\ pc = "done"
    /\ \E k \in 1..Len(deduplicated) :
          /\ records[origin[k]]["notes"] # <<>>
          /\ HasNote(deduplicated[k], "MergedCount")
          /\ HasNote(deduplicated[k], "WebsiteCheckFailed")
          /\ \E j \in 1..Len(records) :
                /\ base_of[j] = origin[k]
                /\ Len(records[j]["notes"]) > 1

\* C10: a step of check_website_availability on a record without website
\* leaves it unchanged; on a demo-domain website it appends one note and keeps
\* the status; otherwise the request is made, a response below 400 leaves the
\* record unchanged, and a status >= 400 or an exception appends exactly one
\* note and turns READY into NEEDS_REVIEW while any other status is kept.
\* No request is made without a website or for a demo domain, and no other
\* field changes.
C10_WebsiteCheck ==
    [][(pc = "website")
        => LET before  == deduplicated[i]
               after   == deduplicated'[i]
               outcome == last'.outcome
           IN  /\ \A key \in DataKeys : after[key] = before[key]
               /\ before["website"] = <<>> => (after = before /\ outcome = "NONE")
               /\ (before["website"] # <<>> /\ Contains(before["website"], DEMO))
                    => /\ outcome = "NONE"
                       /\ after["status"] = before["status"]
                       /\ Len(after["notes"]) = Len(before["notes"]) + 1
                       /\ IsPrefix(before["notes"], after["notes"])
               /\ (before["website"] # <<>> /\ ~Contains(before["website"], DEMO))
                    => IF outcome = "OK" THEN after = before
                       ELSE /\ Len(after["notes"]) = Len(before["notes"]) + 1
                            /\ IsPrefix(before["notes"], after["notes"])
                            /\ after["notes"][Len(after["notes"])].kind
                                  \in {"WebsiteUnreachable", "WebsiteCheckFailed"}
                            /\ after["status"] = IF before["status"] = "READY"
                                                 THEN "NEEDS_REVIEW"
                                                 ELSE before["status"]]_vars

\* A finished run in which the check failed for a READY record (now
\* NEEDS_REVIEW), for a BLOCKED_MISSING_DATA record and for a record that was
\* already NEEDS_REVIEW; each of the two kept its status.
C10_Witness ==
    /\ pc = "done"
    /\ \E k \in 1..Len(deduplicated) :
          /\ records[origin[k]]["status"] = "READY"
          /\ HasNote(deduplicated[k], "WebsiteUnreachable")
          /\ deduplicated[k]["status"] = "NEEDS_REVIEW"
    /\ \E k \in 1..Len(deduplicated) :
          /\ deduplicated[k]["status"] = "BLOCKED_MISSING_DATA"
          /\ HasNote(deduplicated[k], "WebsiteCheckFailed")
    /\ \E k \in 1..Len(deduplicated) :
          /\ records[origin[k]]["status"] = "NEEDS_REVIEW"
          /\ HasNote(deduplicated[k], "WebsiteCheckFailed")
          /\ deduplicated[k]["status"] = "NEEDS_REVIEW"

SeoFields == {"description", "seoTitle", "seoDescription", "tags"}

\* C11: in the record set process_records returns, every record whose status
\* is BLOCKED_MISSING_DATA or MERGED_DUPLICATE has empty description,
\* seoTitle, seoDescription and tags, and the SEO loop has changed a record
\* only if its status was READY or NEEDS_REVIEW.
C11_SeoOnlyReadyOrReview ==
    /\ [](pc = "done"
            => \A k \in 1..Len(deduplicated) :
                  deduplicated[k]["status"] \in {"BLOCKED_MISSING_DATA", "MERGED_DUPLICATE"}
                      => \A key \in SeoFields : deduplicated[k][key] = <<>>)
    /\ [][(pc = "seo" /\ deduplicated'[i] # deduplicated[i])
            => deduplicated[i]["status"] \in {"READY", "NEEDS_REVIEW"}]_vars

\* A returned record set with a blocked record, a merged record, and a READY
\* record that did get its SEO fields.
C11_Witness ==
    /\ pc = "done"
    /\ \E k \in 1..Len(deduplicated) :
          deduplicated[k]["status"] = "BLOCKED_MISSING_DATA"
    /\ \E k \in 1..Len(deduplicated) :
          deduplicated[k]["status"] = "MERGED_DUPLICATE"
    /\ \E k \in 1..Len(deduplicated) :
          /\ deduplicated[k]["status"] = "READY"
          /\ \A key \in SeoFields : deduplicated[k][key] # <<>>

\* C18: when the input file is empty or reading it fails, also part-way,
\* load_csv's failure ends the run: process_records goes on to no stage.
C18_LoadFailureIsFatal ==
    [][(pc = "load" /\ (file.rows = <<>> \/ file.error_at # 0))
        => pc' \notin {"clean", "check", "dedup", "enrich", "website", "seo", "done"}]_vars

\* C19: whenever a non-empty input has been loaded, process_records
\* eventually returns a record set with exactly one record per input row.
C19_AlwaysReturns ==
    (pc = "clean" /\ i = 1 /\ records = <<>>)
        ~> (pc = "done" /\ Len(deduplicated) = Len(raw_records))

----------------------------------------------------------------------------
(* Claims about clean_record and check_required_fields (SpecClean) *)

\* C4 as stated: for every raw input map, also one whose category is missing
\* or empty, the category returned by clean_record is one of GP, Dentist,
\* Physio, Aesthetics, Other.
C4_CategoryTotal ==
    pc = "check" => cleaned[1]["category"] \in valid_categories

\* C4 as amended: a non-empty raw category (whitespace and free text
\* included) is mapped to one of the five valid categories; a missing or
\* empty raw category gives the empty category.
C4_CategoryNormalised ==
    pc = "check"
        => IF raw_records[i]["category"] = <<>>
           THEN cleaned[1]["category"] = <<>>
           ELSE cleaned[1]["category"] \in valid_categories

\* clean_record has mapped the free text 'spa' to Other and noted it
C4_Witness ==
    /\ pc = "check"
    /\ raw_records[i]["category"] = <<"s","p","a">>
    /\ cleaned[1]["category"] = S_Other
    /\ HasNote(cleaned[1], "CategoryMappedToOther")

\* The labels the required-field policy finds missing on a record
PolicyViolations(record) ==
    {l \in {"name", "category", "city"} : record[l] = <<>>}
    \cup (IF record["address"] = <<>> /\ record["postcode"] = <<>>
          THEN {"address or postcode"} ELSE {})
    \cup (IF record["website"] = <<>> /\ record["phone"] = <<>>
          THEN {"website or phone"} ELSE {})

\* C5: check_required_fields leaves a record that meets the policy unchanged;
\* otherwise it sets status BLOCKED_MISSING_DATA whatever the status was,
\* appends exactly one message that lists every missing label once, and
\* changes nothing else.
C5_RequiredFields ==
    [][(pc = "check")
        => LET before == cleaned[1]
               after  == records'[Len(records')]
               msg    == after["notes"][Len(after["notes"])]
           IN  IF PolicyViolations(before) = {} THEN after = before
               ELSE /\ after["status"] = "BLOCKED_MISSING_DATA"
                    /\ Len(after["notes"]) = Len(before["notes"]) + 1
                    /\ IsPrefix(before["notes"], after["notes"])
                    /\ msg.kind = "MissingRequired"
                    /\ SeqToSet(msg.arg) = PolicyViolations(before)
                    /\ Len(msg.arg) = Cardinality(PolicyViolations(before))
                    /\ \A key \in DataKeys : after[key] = before[key]]_vars

\* A record that left clean_record as NEEDS_REVIEW and lacks city, address
\* and postcode has been blocked, with a message naming exactly those.
C5_Witness ==
    /\ last.op = "check"
    /\ WebsiteInvalid(raw_records[1])
    /\ records[1]["status"] = "BLOCKED_MISSING_DATA"
    /\ records[1]["notes"][Len(records[1]["notes"])].arg = <<"city", "address or postcode">>

----------------------------------------------------------------------------
(* Claims about deduplicate_records (SpecDedup) *)

\* C6: no input record is appended to the output twice, and when
\* deduplicate_records returns, every input record is in the output exactly
\* once (a merged duplicate as the very object of the input list), so the
\* output is as long as the input.
C6_Conservation ==
    /\ \A id \in Inputs : Cardinality(OutputPos(id)) <= 1
    /\ \A k \in 1..Len(deduplicated) :
          deduplicated[k]["status"] = "MERGED_DUPLICATE"
              => deduplicated[k] = records[origin[k]]
    /\ pc = "enrich"
          => /\ Len(deduplicated) = Len(records)
             /\ \A id \in Inputs : Cardinality(OutputPos(id)) = 1

\* deduplicate_records has returned for three records of which one was merged
\* and one was not matched
C6_Witness ==
    /\ pc = "enrich"
    /\ Len(records) = 3
    /\ Cardinality(merged_indices) = 1
    /\ Len(deduplicated) = 3

FilledKeys(record) == {key \in DataKeys : ~Falsy(key, record[key])}

MergedIntoName(record) ==
    record["notes"][CHOOSE k \in 1..Len(record["notes"]) :
                        record["notes"][k].kind = "MergedInto"].arg

\* C8: every MERGED_DUPLICATE record's 'Merged into record: X' note names a
\* record X that is another record of the output and whose name differs from
\* the merged record's own name.
C8_MergedNoteNamesOther ==
    \A k \in 1..Len(deduplicated) :
        deduplicated[k]["status"] = "MERGED_DUPLICATE"
            => /\ \E m \in 1..Len(deduplicated) :
                     m # k /\ deduplicated[m]["name"] = MergedIntoName(deduplicated[k])
               /\ MergedIntoName(deduplicated[k]) # deduplicated[k]["name"]

\* C9: the duplicate test deduplicate_records has used is symmetric: it flags
\* A against B iff it flags B against A.
C9_DuplicateSymmetric ==
    last.op = "dedup_base" =>
    \A a \in 1..Len(records) : \A b \in 1..Len(records) :
        is_duplicate(records[a], records[b]) = is_duplicate(records[b], records[a])

----------------------------------------------------------------------------
(* Claims about generate_seo_content (SpecSeo) *)

\* C12: every seoTitle generate_seo_content produces has length at most 60,
\* for all lengths of name, city and category.
C12_TitleWithinLimit ==
    \A k \in 1..Len(deduplicated) :
        Len(deduplicated[k]["seoTitle"]) <= SeoTitleMax

\* C13: every seoDescription generate_seo_content produces has length at most
\* 155; when the untruncated text is longer than 155 characters the result is
\* its first 152 characters followed by '...', otherwise it is the text.
C13_DescriptionWithinLimit ==
    [][(pc = "seo" /\ SeoApplies(deduplicated[i]))
        => LET before == deduplicated[i]
               after  == deduplicated'[i]
               full   == SeoMetaFull(before)
           IN  /\ Len(after["seoDescription"]) <= 155
               /\ (before["name"] # <<>> /\ before["category"] # <<>> /\ before["city"] # <<>>)
                    => after["seoDescription"] =
                          IF Len(full) > 155
                          THEN SubSeq(full, 1, 152) \o <<".", ".", ".">>
                          ELSE full]_vars

\* A record whose untruncated seoDescription was longer than 155 characters
\* and whose seoDescription is now 155 long and ends with the ellipsis.
C13_Witness ==
    /\ pc = "done"
    /\ last.op = "seo"
    /\ Len(SeoMetaFull(deduplicated[1])) > 155
    /\ Len(deduplicated[1]["seoDescription"]) = 155
    /\ SubSeq(deduplicated[1]["seoDescription"], 153, 155) = <<".", ".", ".">>

\* C14: a second call of generate_seo_content on the record the first call
\* returned leaves the record as it is (the same description, seoTitle,
\* seoDescription and tags), and a call changes no field other than these
\* four.
C14_SeoIdempotent ==
    /\ [][last'.op = "seo_again" => deduplicated' = deduplicated]_vars
    /\ [][last'.op \in {"seo", "seo_again"}
            => \A key \in Keys \ SeoFields :
                  deduplicated'[i][key] = deduplicated[i][key]]_vars

\* A record generated twice that has all four SEO fields, services among
\* its tags and a truncated seoDescription.
C14_Witness ==
    /\ pc = "regenerated"
    /\ \A key \in SeoFields : deduplicated[1][key] # <<>>
    /\ Len(deduplicated[1]["tags"]) > 3
    /\ Len(SeoMetaFull(deduplicated[1])) > 155

----------------------------------------------------------------------------
(* Claims about main: write_outputs and publish_to_api (SpecMain) *)

ReadyPos == {k \in 1..Len(deduplicated) : deduplicated[k]["status"] = "READY"}

\* C15: in publish_to_api a 200 or 201 answer counts the record as
\* published, a 409 answer counts it as published too, and any other status
\* or a transport failure counts it as failed and appends the record's name
\* and the error to failed_records.
C15_PublishClassification ==
    [][pc = "post"
        => LET post == posts'[Len(posts')]
           IN  IF post.code \in {200, 201, 409}
               THEN /\ api_result'.published = api_result.published + 1
                    /\ api_result'.failed = api_result.failed
                    /\ api_result'.failed_records = api_result.failed_records
               ELSE /\ api_result'.published = api_result.published
                    /\ api_result'.failed = api_result.failed + 1
                    /\ Len(api_result'.failed_records) = Len(api_result.failed_records) + 1
                    /\ SubSeq(api_result'.failed_records, 1, Len(api_result.failed_records))
                          = api_result.failed_records
                    /\ api_result'.failed_records[Len(api_result'.failed_records)].record
                          = deduplicated[post.pos]["name"]
                    /\ api_result'.failed_records[Len(api_result'.failed_records)].error.code
                          = post.code]_vars

\* C16: with an endpoint configured, only READY records are POSTed, in the
\* order of the record list and never twice, whatever the earlier answers
\* were; when publish_to_api has returned, every READY record has been
\* POSTed once, published + failed is the number of READY records and
\* skipped is 0.
C16_OnePostPerReady ==
    api_base
    => /\ \A j \in 1..Len(posts) : posts[j].pos \in ReadyPos
       /\ \A j \in 1..Len(posts) : \A l \in 1..Len(posts) :
              j < l => posts[j].pos < posts[l].pos
       /\ (api_result.called /\ pc \in {"report", "end"})
            => /\ {posts[j].pos : j \in 1..Len(posts)} = ReadyPos
               /\ api_result.published + api_result.failed = Cardinality(ReadyPos)
               /\ api_result.skipped = 0

\* A finished run with an endpoint in which the first POST failed, a later
\* one was still made and succeeded, and a record that is not READY stands
\* before a READY one in the list.
C16_Witness ==
    /\ pc = "end"
    /\ api_base
    /\ Len(posts) >= 2
    /\ posts[1].code = 500
    /\ posts[2].code = 201
    /\ \E k \in 1..Len(deduplicated) :
          /\ k \notin ReadyPos
          /\ k < posts[2].pos

\* C17: without an endpoint no POST is attempted, publish_to_api returns
\* published = 0, failed = 0 and skipped = the number of READY records, and
\* main, which reports that result, does not raise.
C17_SkipIsNotError ==
    ~api_base
    => /\ posts = <<>>
       /\ api_result.called
            => /\ api_result.published = 0
               /\ api_result.failed = 0
               /\ api_result.skipped = Cardinality(ReadyPos)
       /\ ~(pc = "raised" /\ last.op = "report")

\* C20: write_outputs writes every record to the all-records artifact, every
\* READY record to the READY-only artifact and to no review row, every other
\* record to the review table and not to the READY-only artifact; the
\* histogram it returns counts the records of each status and sums to the
\* number of records; and the call changes no record.
C20_WritePartition ==
    /\ [][pc = "done" => deduplicated' = deduplicated]_vars
    /\ [](outputs.written
           => LET all    == outputs.clinics_all
                  ready  == outputs.clinics_ready
                  review == outputs.clinics_review
                  counts == outputs.status_counts
                  Rows(t) == {t[k] : k \in 1..Len(t)}
                  Proj(r) == [name |-> r["name"], category |-> r["category"],
                              city |-> r["city"], status |-> r["status"],
                              notes |-> r["notes"]]
              IN  /\ all = deduplicated
                  /\ Len(ready) + Len(review) = Len(all)
                  /\ \A k \in 1..Len(all) :
                        IF all[k]["status"] = "READY"
                        THEN all[k] \in Rows(ready) /\ Proj(all[k]) \notin Rows(review)
                        ELSE Proj(all[k]) \in Rows(review) /\ all[k] \notin Rows(ready)
                  /\ \A r \in Rows(ready) : r["status"] = "READY"
                  /\ \A r \in Rows(review) : r["status"] # "READY"
                  /\ DOMAIN counts \subseteq Statuses
                  /\ \A st \in Statuses :
                        Cardinality({k \in 1..Len(all) : all[k]["status"] = st})
                          = IF st \in DOMAIN counts THEN counts[st] ELSE 0)

\* The artifacts of a run that ended with a READY record, a merged duplicate
\* and a record that is blocked or needs review.
C20_Witness ==
    /\ outputs.written
    /\ Len(outputs.clinics_ready) = 1
    /\ Len(outputs.clinics_review) = 2
    /\ \E k \in 1..2 : outputs.clinics_review[k]["status"] = "MERGED_DUPLICATE"
    /\ \E k \in 1..2 : outputs.clinics_review[k]["status"]
                            \in {"NEEDS_REVIEW", "BLOCKED_MISSING_DATA"}

----------------------------------------------------------------------------
(* Further claims about clean_record (SpecClean) *)

\* t is s title-cased: the same letters, each first letter of a run of
\* letters not lower-case and every other letter not upper-case
TitleCased(s, t) ==
    /\ Len(t) = Len(s)
    /\ StrLower(t) = StrLower(s)
    /\ \A k \in 1..Len(s) :
          IF k = 1 \/ ~IsCasedC(s[k-1]) THEN ~IsLowerC(t[k]) ELSE ~IsUpperC(t[k])

\* C21: clean_record turns the row {name 'ABC CLINIC', category 'dental',
\* phone '07123456789', website 'abcclinic.co.uk', city 'leeds', postcode
\* 'ls1 1aa'} into name 'ABC CLINIC', category 'Dentist', phone
\* '+447123456789', website 'https://abcclinic.co.uk', status READY; in
\* general a fully upper-case name is kept as it is (trimmed), any other name
\* is title-cased, and a phone whose digits start with 0 becomes '+44'
\* followed by the remaining digits.
C21_CleanScenario ==
    pc = "check" =>
        LET raw  == raw_records[i]
            out  == cleaned[1]
            name == Strip(raw["name"])
            digits == DigitsOnly(raw["phone"])
        IN  /\ raw = AbcClinicRow
                  => /\ out["name"] = <<"A","B","C"," ","C","L","I","N","I","C">>
                     /\ out["category"] = S_Dentist
                     /\ out["phone"] = <<"+","4","4","7","1","2","3","4","5","6","7","8","9">>
                     /\ out["website"] = <<"h","t","t","p","s",":","/","/","a","b","c","c","l","i","n","i","c",".","c","o",".","u","k">>
                     /\ out["status"] = "READY"
            /\ StrIsUpper(name) => out["name"] = name
            /\ ~StrIsUpper(name) => TitleCased(name, out["name"])
            /\ (digits # <<>> /\ Head(digits) = "0")
                  => out["phone"] = PLUS44 \o Tail(digits)

\* clean_record has returned for the row of the scenario
C21_Witness ==
    /\ pc = "check"
    /\ raw_records[i] = AbcClinicRow
    /\ StrIsUpper(cleaned[1]["name"])
    /\ StartsWith(cleaned[1]["phone"], PLUS44)

----------------------------------------------------------------------------
(* Further claims about deduplicate_records (SpecDedup) *)

\* Criterion (a): both websites non-empty, hosts equal ignoring case
SameHost(r, o) ==
    /\ r["website"] # <<>>
    /\ o["website"] # <<>>
    /\ StrLower(UrlNetloc(r["website"])) = StrLower(UrlNetloc(o["website"]))

\* Criterion (b): both names non-empty and more than 0.8 similar, postcode
\* areas (first four characters) equal and non-empty
SimilarNameSameArea(r, o) ==
    /\ r["name"] # <<>>
    /\ o["name"] # <<>>
    /\ SimilarityAbove(StrLower(r["name"]), StrLower(o["name"]))
    /\ r["postcode"] # <<>>
    /\ Take(r["postcode"], 4) = Take(o["postcode"], 4)

\* C22: one pass of the outer loop of deduplicate_records for a base i that
\* is not consumed marks exactly the later, not yet consumed records j that
\* meet criterion (a) or (b) against record i, and makes each of them
\* MERGED_DUPLICATE; a pass for a consumed i marks nothing.  So the second
\* of two rows with the same host and different names is merged, and two
\* rows with identical names, empty postcodes and no shared host are not.
C22_DuplicateCriteria ==
    [][pc = "dedup" =>
        \A j \in 1..Len(records) :
            /\ (j \in merged_indices' \ merged_indices)
                  <=> /\ i \notin merged_indices
                      /\ j > i
                      /\ j \notin merged_indices
                      /\ \/ SameHost(records[i], records[j])
                         \/ SimilarNameSameArea(records[i], records[j])
            /\ (j \in merged_indices' \ merged_indices)
                  => records'[j]["status"] = "MERGED_DUPLICATE"
            /\ (j \notin merged_indices')
                  => records'[j]["status"] # "MERGED_DUPLICATE"]_vars

\* deduplicate_records has returned; a record was merged into a base with
\* the same host and another name, and two records with identical names and
\* empty postcodes were both kept
C22_Witness ==
    /\ pc = "enrich"
    /\ \E j \in Inputs :
          /\ base_of[j] # 0
          /\ records[j]["status"] = "MERGED_DUPLICATE"
          /\ records[j]["name"] # records[base_of[j]]["name"]
          /\ records[j]["name"] # <<>>
          /\ records[base_of[j]]["name"] # <<>>
          /\ SameHost(records[base_of[j]], records[j])
    /\ \E a \in Inputs, b \in Inputs :
          /\ a < b
          /\ base_of[a] = 0
          /\ base_of[b] = 0
          /\ merged_indices \cap {a, b} = {}
          /\ records[a]["name"] = records[b]["name"]
          /\ records[a]["name"] # <<>>
          /\ records[a]["postcode"] = <<>>
          /\ records[b]["postcode"] = <<>>

\* The input records consumed by the scan of base b
AbsorbedBy(b) == {j \in Inputs : base_of[j] = b}

----------------------------------------------------------------------------
(* Claims about enrich_with_geodata (SpecLive) *)

\* The record has no address, no city and no postcode
NoAddressParts(record) ==
    record["address"] = <<>> /\ record["city"] = <<>> /\ record["postcode"] = <<>>

GeoNoteKinds == {"NoGoogleApiKey", "GeocodingFailed", "GeocodingError"}

\* `after` is `before` with one diagnostic note of geocoding appended and
\* nothing else changed
GeoNoteAppended(before, after) ==
    /\ Len(after["notes"]) = Len(before["notes"]) + 1
    /\ IsPrefix(before["notes"], after["notes"])
    /\ after["notes"][Len(after["notes"])].kind \in GeoNoteKinds
    /\ \A key \in Keys \ {"notes"} : after[key] = before[key]

\* What every call of enrich_with_geodata does, whatever the record: it
\* returns, leaves status alone, on a failed request appends a note and
\* leaves the coordinates null, and sets the coordinates only on an OK
\* answer with a result.
GeoCommon(before, after, outcome) ==
    /\ pc' = "website"
    /\ after["status"] = before["status"]
    /\ outcome \in {"FAILED", "ERROR"}
          => /\ GeoNoteAppended(before, after)
             /\ after["latitude"] = NoneVal
             /\ after["longitude"] = NoneVal
    /\ (after["latitude"] # NoneVal \/ after["longitude"] # NoneVal)
          <=> outcome = "OK"

\* C24 as stated: geocoding always returns and never changes status; on any
\* failure, a missing credential included, it appends a diagnostic note and
\* leaves latitude and longitude null; for a record with no address, city
\* or postcode it changes nothing on the record; it sets latitude and
\* longitude only on an OK answer with a result.
C24_GeocodeNoOpWithoutParts ==
    [][(pc = "enrich" /\ EnrichApplies(deduplicated[i]))
        => LET before == deduplicated[i]
               after  == deduplicated'[i]
           IN  /\ GeoCommon(before, after, last'.outcome)
               /\ ~google_api_key
                     => /\ GeoNoteAppended(before, after)
                        /\ after["latitude"] = NoneVal
                        /\ after["longitude"] = NoneVal
               /\ NoAddressParts(before) => after = before]_vars

\* C24 as amended: as above, but the credential is looked at first: without
\* it every record, also one with no address, city or postcode, gets the
\* note and nothing else; with it a record with no address, city or
\* postcode is left as it is and no request is made.
C24_GeocodeNeverFatal ==
    [][(pc = "enrich" /\ EnrichApplies(deduplicated[i]))
        => LET before == deduplicated[i]
               after  == deduplicated'[i]
           IN  /\ GeoCommon(before, after, last'.outcome)
               /\ ~google_api_key
                     => /\ GeoNoteAppended(before, after)
                        /\ after["notes"][Len(after["notes"])].kind = "NoGoogleApiKey"
                        /\ last'.outcome = "NONE"
               /\ (google_api_key /\ NoAddressParts(before))
                     => after = before /\ last'.outcome = "NONE"]_vars

\* enrich_with_geodata has just returned for a record with no address, city
\* or postcode, without credential, and the record carries the note
C24_Witness ==
    /\ last.op = "geocode"
    /\ ~google_api_key
    /\ NoAddressParts(deduplicated[last.k])
    /\ HasNote(deduplicated[last.k], "NoGoogleApiKey")
    /\ deduplicated[last.k]["latitude"] = NoneVal

----------------------------------------------------------------------------
(* Claims about the website rule of clean_record (SpecClean) *)

\* The host of the cleaned website is empty, has no dot or cannot be parsed
BadHost(website) ==
    \/ UrlRaises(website)
    \/ UrlNetloc(website) = <<>>
    \/ ~Contains(UrlNetloc(website), <<".">>)

\* C25: clean_record returns for every row; a non-empty website gets
\* 'https://' in front when it starts with neither 'http://' nor
\* 'https://'; the record leaves clean_record as NEEDS_REVIEW, with the
\* invalid-URL note, if and only if its website is non-empty and the host is
\* empty, without a dot or unparsable, and as READY otherwise, whatever its
\* other fields are.
C25_WebsiteDecidesStatus ==
    last.op = "clean" =>
        LET raw     == raw_records[last.k]
            trimmed == Strip(raw["website"])
            website == IF StartsWith(trimmed, HTTP) \/ StartsWith(trimmed, HTTPS)
                       THEN trimmed ELSE HTTPS \o trimmed
        IN  /\ pc = "check"
            /\ Len(cleaned) = 1
            /\ IF raw["website"] = <<>>
               THEN /\ cleaned[1]["website"] = <<>>
                    /\ cleaned[1]["status"] = "READY"
                    /\ ~HasNote(cleaned[1], "WebsiteInvalid")
               ELSE /\ cleaned[1]["website"] = website
                    /\ cleaned[1]["status"] =
                          IF BadHost(website) THEN "NEEDS_REVIEW" ELSE "READY"
                    /\ HasNote(cleaned[1], "WebsiteInvalid") <=> BadHost(website)

----------------------------------------------------------------------------
(* Claims about the final output of process_records (SpecMain) *)

\* process_records has returned its records to main
Returned ==
    \/ pc \in {"done", "publish", "post", "report"}
    \/ (pc = "end" /\ last.op # "main")
    \/ (pc = "raised" /\ last.op = "report")

\* The labels the required-field policy finds missing on a payload, which
\* carries the category under 'type'
PayloadViolations(payload) ==
    {l \in {"name", "type", "city"} : payload[l] = <<>>}
    \cup (IF payload["address"] = <<>> /\ payload["postcode"] = <<>>
          THEN {"address or postcode"} ELSE {})
    \cup (IF payload["website"] = <<>> /\ payload["phone"] = <<>>
          THEN {"website or phone"} ELSE {})

\* C26: in the records process_records has returned, every READY record has
\* non-empty name, category and city, an address or a postcode, and a
\* website or a phone; and every payload publish_to_api has sent has them
\* too.
C26_ReadyMeetsPolicy ==
    /\ Returned
          => \A k \in 1..Len(deduplicated) :
                deduplicated[k]["status"] = "READY"
                    => PolicyViolations(deduplicated[k]) = {}
    /\ \A j \in 1..Len(posts) : PayloadViolations(posts[j].payload) = {}

\* main has ended after a POST for a READY record that had absorbed a
\* duplicate, and the output also holds a blocked record
C26_Witness ==
    /\ pc = "end"
    /\ \E j \in 1..Len(posts) :
          /\ \E d \in Inputs : base_of[d] = origin[posts[j].pos]
          /\ posts[j].payload["type"] = deduplicated[posts[j].pos]["category"]
    /\ \E k \in 1..Len(deduplicated) :
          deduplicated[k]["status"] = "BLOCKED_MISSING_DATA"

\* C27 as stated: in the records process_records has returned, every
\* BLOCKED_MISSING_DATA record breaks the required-field policy on the field
\* values it has then; a blocked base that has absorbed the fields it
\* lacked does not stay BLOCKED_MISSING_DATA.
C27_BlockedBreaksPolicy ==
    Returned
        => \A k \in 1..Len(deduplicated) :
              deduplicated[k]["status"] = "BLOCKED_MISSING_DATA"
                  => PolicyViolations(deduplicated[k]) # {}

\* C27 as amended: in the records process_records has returned, the
\* BLOCKED_MISSING_DATA records are exactly the records that were not merged
\* and that broke the policy on the field values they had when
\* check_required_fields ran; each carries the message written then.  The
\* status is not looked at again after the merge.
C27_BlockedAtValidation ==
    Returned
        => \A k \in 1..Len(deduplicated) :
              /\ (deduplicated[k]["status"] = "BLOCKED_MISSING_DATA")
                    <=> /\ base_of[origin[k]] = 0
                        /\ PolicyViolations(records[origin[k]]) # {}
              /\ deduplicated[k]["status"] = "BLOCKED_MISSING_DATA"
                    => /\ records[origin[k]]["status"] = "BLOCKED_MISSING_DATA"
                       /\ HasNote(deduplicated[k], "MissingRequired")

\* A base blocked at validation has absorbed a duplicate, now meets the
\* policy and is still BLOCKED_MISSING_DATA in the returned records
C27_Witness ==
    /\ Returned
    /\ \E k \in 1..Len(deduplicated) :
          /\ deduplicated[k]["status"] = "BLOCKED_MISSING_DATA"
          /\ \E d \in Inputs : base_of[d] = origin[k]
          /\ PolicyViolations(records[origin[k]]) # {}
          /\ PolicyViolations(deduplicated[k]) = {}

----------------------------------------------------------------------------
(* Claims about the output of deduplicate_records (SpecDedup) *)

\* The output positions of the records that were not merged
Survivors == {k \in 1..Len(deduplicated) :
                 deduplicated[k]["status"] # "MERGED_DUPLICATE"}

\* C28: when deduplicate_records has returned, no two records of its output
\* that are not MERGED_DUPLICATE meet criterion (a) or (b) on the field
\* values they have in the output, the fields a base has absorbed included.
C28_NoSurvivingDuplicates ==
    pc = "enrich"
        => \A a \in Survivors : \A b \in Survivors :
              a # b => /\ ~SameHost(deduplicated[a], deduplicated[b])
                       /\ ~SimilarNameSameArea(deduplicated[a], deduplicated[b])

\* C28 as amended: when deduplicate_records has returned, no two records of
\* its output that are not MERGED_DUPLICATE meet criterion (a) or (b) on the
\* field values they came in with, the earlier one taken as the base.  The
\* fields a base has absorbed are not compared with anything.
C28_NoSurvivingInputDuplicates ==
    pc = "enrich"
        => \A a \in Survivors : \A b \in Survivors :
              origin[a] < origin[b]
                  => /\ ~SameHost(records[origin[a]], records[origin[b]])
                     /\ ~SimilarNameSameArea(records[origin[a]], records[origin[b]])

\* deduplicate_records has returned two records that are not merged, do not
\* match on the values they came in with, and have the same host because the
\* earlier one absorbed its website from a duplicate
C28_Witness ==
    /\ pc = "enrich"
    /\ \E a \in Survivors : \E b \in Survivors :
          /\ origin[a] < origin[b]
          /\ records[origin[a]]["website"] = <<>>
          /\ \E d \in Inputs : base_of[d] = origin[a]
          /\ ~SameHost(records[origin[a]], records[origin[b]])
          /\ ~SimilarNameSameArea(records[origin[a]], records[origin[b]])
          /\ ~SimilarNameSameArea(records[origin[b]], records[origin[a]])
          /\ SameHost(deduplicated[a], deduplicated[b])

\* C29: duplicates are not chained.  An index is consumed at most once, by
\* the pass of a base that is not itself consumed; every consumed record
\* meets criterion (a) or (b) against its base as the base came in, so a
\* record that matches only a consumed record stays unmerged; and no record
\* is both merged and the record another one was merged into.
C29_NoChaining ==
    /\ [](\A k \in 1..Len(base_of) :
            base_of[k] # 0
                => /\ base_of[base_of[k]] = 0
                   /\ k \in merged_indices
                   /\ base_of[k] \notin merged_indices
                   /\ \/ SameHost(records[base_of[k]], records[k])
                      \/ SimilarNameSameArea(records[base_of[k]], records[k]))
    /\ [][\A k \in 1..Len(base_of) :
            base_of'[k] # base_of[k]
                => /\ base_of[k] = 0
                   /\ k \notin merged_indices
                   /\ base_of'[k] = i
                   /\ i \notin merged_indices]_vars

\* deduplicate_records has returned; the second record was merged into the
\* first, and the third, which matches the second and not the first, was
\* not merged
C29_Witness ==
    /\ pc = "enrich"
    /\ Len(records) = 3
    /\ base_of = <<0, 1, 0>>
    /\ SameHost(records[2], records[3]) \/ SimilarNameSameArea(records[2], records[3])
    /\ ~SameHost(records[1], records[3])
    /\ ~SimilarNameSameArea(records[1], records[3])
    /\ deduplicated[3]["status"] # "MERGED_DUPLICATE"
    /\ origin = <<2, 1, 3>>

----------------------------------------------------------------------------
(* Claims about the SEO fields of the final output (SpecMain) *)

\* C30: in the records process_records has returned, every READY or
\* NEEDS_REVIEW record has a non-empty name, category and city, and with
\* them a non-empty description, seoTitle and seoDescription, and tags that
\* begin with 'private', the lower-cased city and the lower-cased category.
C30_SeoComplete ==
    Returned
        => \A k \in 1..Len(deduplicated) :
              deduplicated[k]["status"] \in {"READY", "NEEDS_REVIEW"}
                  => LET record == deduplicated[k]
                     IN  /\ record["name"] # <<>>
                         /\ record["category"] # <<>>
                         /\ record["city"] # <<>>
                         /\ record["description"] # <<>>
                         /\ record["seoTitle"] # <<>>
                         /\ record["seoDescription"] # <<>>
                         /\ Len(record["tags"]) >= 3
                         /\ record["tags"][1] = <<"p","r","i","v","a","t","e">>
                         /\ record["tags"][2] = StrLower(record["city"])
                         /\ record["tags"][3] = StrLower(record["category"])

\* process_records has returned a NEEDS_REVIEW record and a READY record
\* with service tags, both with their SEO fields, and a blocked record
\* without
C30_Witness ==
    /\ Returned
    /\ \E k \in 1..Len(deduplicated) :
          /\ deduplicated[k]["status"] = "NEEDS_REVIEW"
          /\ deduplicated[k]["seoTitle"] # <<>>
    /\ \E k \in 1..Len(deduplicated) :
          /\ deduplicated[k]["status"] = "READY"
          /\ Len(deduplicated[k]["tags"]) > 3
    /\ \E k \in 1..Len(deduplicated) :
          /\ deduplicated[k]["status"] = "BLOCKED_MISSING_DATA"
          /\ deduplicated[k]["tags"] = <<>>

====
